---- MODULE Spec2Model ----
(***************************************************************************)
(* Smart Inventory: the order-confirmation function (funcfolder/           *)
(* function_app.py), the JWT/RBAC layer (app/auth.py) and the login route  *)
(* (temp_zip/app/routes/auth_router.py).                                   *)
(*                                                                         *)
(*   Spec         the confirm_order workflow: concurrent invocations over  *)
(*                the orders / invoice tables and the blob container       *)
(*   SpecAuth     login, token issue / verification, role gate, password   *)
(*                hashing                                                  *)
(*   SpecInvoice  the invoice arithmetic and the table / grand-total cells *)
(***************************************************************************)
EXTENDS Integers, Sequences, FiniteSets, TLC

VARIABLES
    orders,      \* table orders: order_id -> [warehouse_id, status, invoice_blob]
    invoice,     \* table invoice: order_id -> number of rows with that order_id
    blobs,       \* container "invoices": blob name -> content (absent names not in DOMAIN)
    inv,         \* one record per confirm_order invocation (its position and locals)
    lastUpload,  \* history: per order_id, the invocation whose upload_blob ran last (0: none)
    lastLink,    \* history: per order_id, the invocation whose link UPDATE ran last (0: none)
    during,      \* history: per invocation, the invocations in flight when it started
    before,      \* history: the tables and the container as they were at the start
    users_db,    \* auth: fake_users_db, built once at import
    hashed,      \* auth: the last safe_hash_password result, with the password it was made from
    clock,       \* auth: datetime.utcnow(), in minutes
    issued,      \* auth: history of tokens returned by login: [token, to, at]
    resp,        \* auth: the result of the last call made at the current clock value
    r_in,        \* invoice arithmetic: the rows fetched from order_items
    r_pc,        \* invoice arithmetic: position in the computation
    r_out        \* invoice arithmetic: total_amount and the cells written so far

wfVars   == <<orders, invoice, blobs, inv, lastUpload, lastLink, during, before>>
authVars == <<users_db, hashed, clock, issued, resp>>
invVars  == <<r_in, r_pc, r_out>>
vars     == <<orders, invoice, blobs, inv, lastUpload, lastLink, during, before,
              users_db, hashed, clock, issued, resp, r_in, r_pc, r_out>>

None == <<>>        \* Python None / SQL NULL (never compared with a number or a string)
NoOrderId == 0      \* order_id of an invocation that has not parsed one

\* ------------------------------------------------------------------ bounds
MaxInv == 2         \* number of confirm_order invocations (deliveries) considered

\* ------------------------------------------------------------------ money
\* Amounts are counted in thousandths of a currency unit, so that prices finer
\* than the two decimals the invoice prints can be stated.  float(qty) *
\* float(price) and the float sum are taken as exact: for the magnitudes here
\* the binary error is far below half a cent and no amount lies on a rounding
\* tie (UnitPrices holds even thousandths only, so every amount is even).
Milli(whole, thousandths) == whole * 1000 + thousandths

\* f"{x:.2f}": round to the nearest hundredth (ties to even), print the whole
\* part, a point, and two digits.
Fmt2f(x) ==
    LET down  == x \div 10
        rest  == x % 10
        cents == IF rest > 5 \/ (rest = 5 /\ down % 2 = 1) THEN down + 1 ELSE down
    IN  [whole |-> cents \div 100, point |-> ".",
         frac |-> <<(cents \div 10) % 10, cents % 10>>]

\* The amount a printed d.dd cell denotes, in thousandths.
CellAmount(c) == c.whole * 1000 + c.frac[1] * 100 + c.frac[2] * 10

RECURSIVE SumSeq(_)
SumSeq(s) == IF s = <<>> THEN 0 ELSE Head(s) + SumSeq(Tail(s))

\* line 159: line_total = float(qty) * float(price)
LineTotal(item) == item.quantity * item.price

\* Variant: the quantity left out of the sum.
TotalAmountOfPrices(items) ==
    SumSeq([k \in 1..Len(items) |-> items[k].price])

\* line 113: total_amount = sum([float(i['quantity']) * float(i['price']) for i in items])
TotalAmount(items) ==
    SumSeq([k \in 1..Len(items) |-> items[k].quantity * items[k].price])

\* lines 158-164: one table row per item
RenderRow(item) ==
    [product_id |-> item.product_id,
     quantity   |-> item.quantity,
     price      |-> Fmt2f(item.price),
     total      |-> Fmt2f(LineTotal(item))]

\* lines 168-169: the grand-total row
GrandTotalCell(total_amount) == [prefix |-> "INR ", amount |-> Fmt2f(total_amount)]

\* ------------------------------------------------------------------ workflow data
OrderIds  == {1, 2}     \* order_id values with a row in orders
OtherId   == 3          \* an order_id no row of orders has
EventIds  == OrderIds \cup {OtherId}
Invocations == 1..MaxInv

\* table order_items (read-only in this workflow)
OrderItems(oid) ==
    IF oid = 1
    THEN << [product_id |-> 7, quantity |-> 2, price |-> Milli(10, 0)],
            [product_id |-> 8, quantity |-> 1, price |-> Milli(5, 0)] >>
    ELSE <<>>

\* line 177
BlobName(oid) == <<"invoice_order_", oid, ".pdf">>
\* line 180: blob_client.url is the account / container / blob name address
BlobUrl(name) == <<"https://account/", "invoices", "/", name>>

\* The inbound message bodies considered (lines 84-86):
\*   bytes that are not UTF-8; text that is not JSON after the quote
\*   replacement; a JSON array; a JSON object without order_id; an object with
\*   order_id.
Bodies ==
    {[kind |-> "not_utf8"], [kind |-> "not_json"], [kind |-> "array"],
     [kind |-> "object", fields |-> {}]}
    \cup {[kind |-> "object", fields |-> {"order_id"}, order_id |-> o] : o \in EventIds}

\* Variant: event.get("order_id", 1) in place of event["order_id"].
ParseOrderIdDefault(body) ==
    IF body.kind = "not_utf8" THEN [raises |-> "UnicodeDecodeError"]
    ELSE IF body.kind = "not_json" THEN [raises |-> "JSONDecodeError"]
    ELSE IF body.kind = "array" THEN [raises |-> "TypeError"]
    ELSE IF "order_id" \notin body.fields THEN [raises |-> "", order_id |-> 1]
    ELSE [raises |-> "", order_id |-> body.order_id]

\* lines 84-86: decode, json.loads, event["order_id"]; raises names the exception, "" when none
ParseOrderId(body) ==
    IF body.kind = "not_utf8" THEN [raises |-> "UnicodeDecodeError"]
    ELSE IF body.kind = "not_json" THEN [raises |-> "JSONDecodeError"]
    ELSE IF body.kind = "array" THEN [raises |-> "TypeError"]
    ELSE IF "order_id" \notin body.fields THEN [raises |-> "KeyError"]
    ELSE [raises |-> "", order_id |-> body.order_id]

\* Variant: the insert made idempotent (no second row for an order_id).
InsertRowIfAbsent(tbl, oid) == [tbl EXCEPT ![oid] = IF @ = 0 THEN 1 ELSE @]

\* INSERT INTO invoice(order_id, created_at) VALUES (:oid, NOW())
InsertRow(tbl, oid) == [tbl EXCEPT ![oid] = @ + 1]

\* Variant: the UPDATE without its WHERE clause.
UpdateOrdersNoWhere(tbl, oid, field, val) ==
    [o \in DOMAIN tbl |-> [tbl[o] EXCEPT ![field] = val]]

\* UPDATE orders SET <field>=<val> WHERE order_id=:oid (no row: nothing changes)
UpdateOrders(tbl, oid, field, val) ==
    [o \in DOMAIN tbl |-> IF o = oid THEN [tbl[o] EXCEPT ![field] = val] ELSE tbl[o]]

\* SELECT * FROM orders WHERE order_id=:oid ... .first()
SelectOrder(tbl, oid) == IF oid \in DOMAIN tbl THEN tbl[oid] ELSE None

\* Variant: an existing blob is kept (no overwrite).
UploadBlobIfAbsent(store, name, content) ==
    [n \in DOMAIN store \cup {name} |-> IF n \in DOMAIN store THEN store[n] ELSE content]

\* upload_blob(..., overwrite=True)
UploadBlob(store, name, content) ==
    [n \in DOMAIN store \cup {name} |-> IF n = name THEN content ELSE store[n]]

\* lines 129-171: the document; stamp stands for the generation time printed
\* on line 135, different for every invocation
RenderPdf(i, oid, order, items, total_amount) ==
    [invoice_no   |-> oid,
     stamp        |-> i,
     order_id     |-> oid,
     warehouse_id |-> order.warehouse_id,
     rows         |-> [k \in 1..Len(items) |-> RenderRow(items[k])],
     grand_total  |-> GrandTotalCell(total_amount)]

Idle ==
    [pc |-> "idle", body |-> None, order_id |-> NoOrderId, order |-> None, items |-> <<>>,
     total_amount |-> 0, pdf |-> None, blob_name |-> None, blob_url |-> None, did |-> {}, failed_at |-> "none",
     cause |-> "none"]

InFlight(r) == r.pc \in {"mark", "fetch", "insert", "render", "upload", "link"}

\* An order row as the REST layer leaves it, or as an earlier confirmation left it
FreshRow(o)     == [warehouse_id |-> 10 + o, status |-> "placed", invoice_blob |-> None]
ShippedRow(o)   == [warehouse_id |-> 10 + o, status |-> "shipped", invoice_blob |-> None]
ProcessedRow(o) == [warehouse_id |-> 10 + o, status |-> "confirmed",
                    invoice_blob |-> BlobUrl(BlobName(o))]
OldPdf(o) ==
    [invoice_no |-> o, stamp |-> 0, order_id |-> o, warehouse_id |-> 10 + o,
     rows |-> [k \in 1..Len(OrderItems(o)) |-> RenderRow(OrderItems(o)[k])],
     grand_total |-> GrandTotalCell(TotalAmount(OrderItems(o)))]

\* ------------------------------------------------------------------ auth / invoice idle values
AuthIdle ==
    /\ users_db = <<>> /\ hashed = <<>> /\ clock = 0 /\ issued = {} /\ resp = [op |-> "none"]
InvIdle  == /\ r_in = <<>> /\ r_pc = "off" /\ r_out = None

\* ------------------------------------------------------------------ workflow: Init
\* Either both orders are newly placed, or order 1 has already been shipped
\* and order 2 was confirmed before (row, invoice row and blob all present).
Init ==
    /\ \E was2 \in BOOLEAN :
         /\ orders = (1 :> IF was2 THEN ShippedRow(1) ELSE FreshRow(1))
                      @@ (2 :> IF was2 THEN ProcessedRow(2) ELSE FreshRow(2))
         /\ invoice = [o \in EventIds |-> IF o = 2 /\ was2 THEN 1 ELSE 0]
         /\ blobs = IF was2 THEN (BlobName(2) :> OldPdf(2)) ELSE <<>>
    /\ inv = [i \in Invocations |-> Idle]
    /\ lastUpload = [o \in EventIds |-> 0]
    /\ lastLink = [o \in EventIds |-> 0]
    /\ during = [i \in Invocations |-> {}]
    /\ before = [orders |-> orders, invoice |-> invoice, blobs |-> blobs]
    /\ AuthIdle
    /\ InvIdle

\* ------------------------------------------------------------------ workflow: actions
\* Variant: one transaction spanning the steps, rolled back by the handler.
RaiseRollback(i, at, cause) ==
    /\ inv' = [inv EXCEPT ![i].pc = "raised", ![i].failed_at = at, ![i].cause = cause]
    /\ orders' = before.orders
    /\ UNCHANGED <<invoice, blobs, lastUpload, lastLink>>

\* lines 199-201: except Exception: log, raise.  Nothing is undone.
\* cause: "code" when a statement of the handler raises on the data it was
\* given, "io" when a database or storage call fails.
Raise(i, at, cause) ==
    /\ inv' = [inv EXCEPT ![i].pc = "raised", ![i].failed_at = at, ![i].cause = cause]
    /\ UNCHANGED <<orders, invoice, blobs, lastUpload, lastLink>>

\* lines 78-87: the trigger delivers a message; step 1 parses it
Receive(i) ==
    /\ inv[i].pc = "idle"
    /\ \E body \in Bodies :
         LET parsed == ParseOrderId(body) IN
         IF parsed.raises # ""
         THEN /\ inv' = [inv EXCEPT ![i].pc = "raised", ![i].failed_at = "receive",
                                    ![i].cause = "code", ![i].body = body]
         ELSE /\ inv' = [inv EXCEPT ![i].pc = "mark", ![i].body = body,
                                    ![i].order_id = parsed.order_id]
    /\ during' = [during EXCEPT ![i] = {j \in Invocations \ {i} : InFlight(inv[j])}]
    /\ UNCHANGED before
    /\ UNCHANGED <<orders, invoice, blobs, lastUpload, lastLink>>
    /\ UNCHANGED <<authVars, invVars>>

\* Variant: ... WHERE order_id=:oid AND status='placed'.
MarkConfirmedIfPlaced(i) ==
    /\ inv[i].pc = "mark"
    /\ orders' = [o \in DOMAIN orders |->
                    IF o = inv[i].order_id /\ orders[o].status = "placed"
                    THEN [orders[o] EXCEPT !.status = "confirmed"] ELSE orders[o]]
    /\ inv' = [inv EXCEPT ![i].pc = "fetch", ![i].did = @ \cup {"mark"}]
    /\ UNCHANGED <<invoice, blobs, lastUpload, lastLink, during, before>>
    /\ UNCHANGED <<authVars, invVars>>

\* lines 92-97: step 2, its own transaction
MarkConfirmed(i) ==
    /\ inv[i].pc = "mark"
    /\ orders' = UpdateOrders(orders, inv[i].order_id, "status", "confirmed")
    /\ inv' = [inv EXCEPT ![i].pc = "fetch", ![i].did = @ \cup {"mark"}]
    /\ UNCHANGED <<invoice, blobs, lastUpload, lastLink, during, before>>
    /\ UNCHANGED <<authVars, invVars>>

\* lines 102-114: step 3, fetch the order and its items, compute the total
FetchOrder(i) ==
    /\ inv[i].pc = "fetch"
    /\ LET items == OrderItems(inv[i].order_id) IN
       inv' = [inv EXCEPT ![i].pc = "insert",
                          ![i].order = SelectOrder(orders, inv[i].order_id),
                          ![i].items = items,
                          ![i].total_amount = TotalAmount(items),
                          ![i].did = @ \cup {"fetch"}]
    /\ UNCHANGED <<orders, invoice, blobs, lastUpload, lastLink, during, before>>
    /\ UNCHANGED <<authVars, invVars>>

\* The schema of table invoice: invoice(order_id, created_at), its order_id
\* not declared a foreign key (only order_items.order_id is), so the database
\* accepts a row for any order_id.
InvoiceOrderIdIsForeignKey == FALSE

\* lines 119-124: step 4, INSERT INTO invoice; whether an order row was found
\* is not looked at
InsertInvoice(i) ==
    /\ inv[i].pc = "insert"
    /\ IF InvoiceOrderIdIsForeignKey /\ inv[i].order_id \notin DOMAIN orders
       THEN Raise(i, "insert", "code")
       ELSE /\ invoice' = InsertRow(invoice, inv[i].order_id)
            /\ inv' = [inv EXCEPT ![i].pc = "render", ![i].did = @ \cup {"insert"}]
            /\ UNCHANGED <<orders, blobs, lastUpload, lastLink>>
    /\ UNCHANGED <<during, before>>
    /\ UNCHANGED <<authVars, invVars>>

\* lines 129-172: step 5; order['warehouse_id'] on line 142 raises TypeError
\* when the fetch found no row
RenderInvoice(i) ==
    /\ inv[i].pc = "render"
    /\ IF inv[i].order = None
       THEN Raise(i, "render", "code")
       ELSE /\ inv' = [inv EXCEPT ![i].pc = "upload",
                                  ![i].pdf = RenderPdf(i, inv[i].order_id, inv[i].order,
                                                       inv[i].items, inv[i].total_amount),
                                  ![i].did = @ \cup {"render"}]
            /\ UNCHANGED <<orders, invoice, blobs, lastUpload, lastLink>>
    /\ UNCHANGED <<during, before>>
    /\ UNCHANGED <<authVars, invVars>>

\* Variant: a failed upload swallowed, the handler going on to the link update.
UploadInvoiceSwallowed(i) ==
    /\ inv[i].pc = "upload"
    /\ LET blob_name == BlobName(inv[i].order_id) IN
       /\ \/ blobs' = UploadBlob(blobs, blob_name, inv[i].pdf)
          \/ blobs' = blobs
       /\ inv' = [inv EXCEPT ![i].pc = "link", ![i].blob_name = blob_name,
                             ![i].blob_url = BlobUrl(blob_name),
                             ![i].did = @ \cup {"upload"}]
    /\ lastUpload' = [lastUpload EXCEPT ![inv[i].order_id] = i]
    /\ UNCHANGED <<orders, invoice, lastLink, during, before>>
    /\ UNCHANGED <<authVars, invVars>>

\* lines 177-181: step 6
UploadInvoice(i) ==
    /\ inv[i].pc = "upload"
    /\ LET blob_name == BlobName(inv[i].order_id) IN
       /\ blobs' = UploadBlob(blobs, blob_name, inv[i].pdf)
       /\ inv' = [inv EXCEPT ![i].pc = "link", ![i].blob_name = blob_name,
                             ![i].blob_url = BlobUrl(blob_name),
                             ![i].did = @ \cup {"upload"}]
    /\ lastUpload' = [lastUpload EXCEPT ![inv[i].order_id] = i]
    /\ UNCHANGED <<orders, invoice, lastLink, during, before>>
    /\ UNCHANGED <<authVars, invVars>>

\* lines 186-197: step 7, then the success log lines
LinkInvoice(i) ==
    /\ inv[i].pc = "link"
    /\ orders' = UpdateOrders(orders, inv[i].order_id, "invoice_blob", inv[i].blob_url)
    /\ inv' = [inv EXCEPT ![i].pc = "done", ![i].did = @ \cup {"link"}]
    /\ lastLink' = [lastLink EXCEPT ![inv[i].order_id] = i]
    /\ UNCHANGED <<invoice, blobs, lastUpload, during, before>>
    /\ UNCHANGED <<authVars, invVars>>

\* A database round trip, the PDF library or the upload raises (connection
\* lost, storage unreachable): the step's own transaction has no effect,
\* lines 199-201 run.
StepFails(i) ==
    /\ InFlight(inv[i])
    /\ Raise(i, inv[i].pc, "io")
    /\ UNCHANGED <<during, before>>
    /\ UNCHANGED <<authVars, invVars>>

Step(i) ==
    \/ MarkConfirmed(i)
    \/ FetchOrder(i)
    \/ InsertInvoice(i)
    \/ RenderInvoice(i)
    \/ UploadInvoice(i)
    \/ LinkInvoice(i)

Next ==
    \/ \E i \in Invocations : Receive(i)
    \/ \E i \in Invocations : MarkConfirmed(i)
    \/ \E i \in Invocations : FetchOrder(i)
    \/ \E i \in Invocations : InsertInvoice(i)
    \/ \E i \in Invocations : RenderInvoice(i)
    \/ \E i \in Invocations : UploadInvoice(i)
    \/ \E i \in Invocations : LinkInvoice(i)
    \/ \E i \in Invocations : StepFails(i)

Spec == Init /\ [][Next]_vars

\* ------------------------------------------------------------------ workflow: claims
For(o) == {i \in Invocations : inv[i].order_id = o}
DoneFor(o) == {i \in For(o) : inv[i].pc = "done"}
Sequential(i, j) == i \notin during[j] /\ j \notin during[i]
BlobsOf(o) == {n \in DOMAIN blobs : n[2] = o}
Steps == <<"mark", "fetch", "insert", "render", "upload", "link">>
StepsBefore(at) == {Steps[k] : k \in {k \in 1..Len(Steps) : \E m \in k+1..Len(Steps) : Steps[m] = at}}
InsertedFor(o) == {i \in For(o) : "insert" \in inv[i].did}

\* Two runs for the same order, one after the other, both completed, and no
\* other delivery for that order.
TwoRunsInTurn(o, i, j) ==
    /\ i # j
    /\ For(o) = {i, j}
    /\ DoneFor(o) = {i, j}
    /\ Sequential(i, j)

\* C1: two confirm_order runs for one order_id, one after the other and both
\* to completion, leave exactly two more invoice rows for it than before; both
\* wrote the blob key invoice_order_{order_id}.pdf and exactly one blob exists
\* for the order.
C1_TwoRunsTwoRowsOneBlob ==
    \A o \in OrderIds : \A i, j \in Invocations :
        TwoRunsInTurn(o, i, j) =>
            /\ invoice[o] = before.invoice[o] + 2
            /\ inv[i].blob_name = <<"invoice_order_", o, ".pdf">>
            /\ inv[j].blob_name = inv[i].blob_name
            /\ BlobsOf(o) = {inv[i].blob_name}

C1_Witness ==
    \E i, j \in Invocations : TwoRunsInTurn(1, i, j) /\ before.invoice[1] = 0

\* C2: a step that fails changes nothing, every earlier step's effect stays,
\* no later step runs and the invocation ends raised; alone on its order, a
\* failure after the status update leaves status 'confirmed' and invoice_blob
\* as it was.
C2_FailingStepChangesNothing ==
    \A i \in Invocations :
        (inv[i].pc # "raised" /\ inv'[i].pc = "raised") =>
            /\ orders' = orders /\ invoice' = invoice /\ blobs' = blobs
            /\ inv'[i].did = inv[i].did
            /\ inv'[i].failed_at = IF inv[i].pc = "idle" THEN "receive" ELSE inv[i].pc

C2_RaisedIsFinal ==
    \A i \in Invocations : inv[i].pc = "raised" => inv'[i] = inv[i]

C2_EarlierStepsPersist ==
    \A i \in Invocations :
        inv[i].pc = "raised" /\ inv[i].failed_at # "receive" =>
            LET o == inv[i].order_id IN
            /\ inv[i].did = StepsBefore(inv[i].failed_at)
            /\ invoice[o] = before.invoice[o] + Cardinality(InsertedFor(o))
            /\ "upload" \in inv[i].did => inv[i].blob_name \in DOMAIN blobs
            /\ o \in OrderIds /\ "mark" \in inv[i].did =>
                 /\ orders[o].status = "confirmed"
                 /\ For(o) = {i} => orders[o].invoice_blob = before.orders[o].invoice_blob

C2_NoRollbackNoRetry ==
    /\ [][C2_FailingStepChangesNothing /\ C2_RaisedIsFinal]_vars
    /\ []C2_EarlierStepsPersist

C2_Witness ==
    \E i \in Invocations :
        /\ inv[i].pc = "raised" /\ inv[i].failed_at = "link" /\ inv[i].order_id = 1
        /\ For(1) = {i}
        /\ before.orders[1].status = "shipped"
        /\ orders[1].status = "confirmed" /\ orders[1].invoice_blob = None
        /\ invoice[1] = 1 /\ BlobName(1) \in DOMAIN blobs

Malformed(body) == body.kind # "object" \/ "order_id" \notin body.fields

\* Two deliveries for the same order, in any interleaving, both completed.
TwoRunsDone(o, i, j) ==
    /\ i # j
    /\ For(o) = {i, j}
    /\ DoneFor(o) = {i, j}

\* C3: two invocations for one order, interleaved in any way and both
\* completed, leave status 'confirmed', two new invoice rows, invoice_blob as
\* written by the last link update and the blob of the last upload; an
\* invocation in flight can always take its next step, and the handler's own
\* code raises only on a malformed body or an order_id without a row, never
\* because of another invocation.
C3_InterleavedRunsLastWriterWins ==
    /\ \A o \in OrderIds : \A i, j \in Invocations :
         TwoRunsDone(o, i, j) =>
            /\ orders[o].status = "confirmed"
            /\ invoice[o] = before.invoice[o] + 2
            /\ lastLink[o] \in {i, j} /\ lastUpload[o] \in {i, j}
            /\ orders[o].invoice_blob = inv[lastLink[o]].blob_url
            /\ blobs[BlobName(o)] = inv[lastUpload[o]].pdf
    /\ \A i \in Invocations : InFlight(inv[i]) => ENABLED Step(i)
    /\ \A i \in Invocations :
         inv[i].pc = "raised" /\ inv[i].cause = "code" =>
            \/ inv[i].failed_at = "receive" /\ Malformed(inv[i].body)
            \/ inv[i].failed_at = "render" /\ inv[i].order_id \notin OrderIds

\* both done, truly interleaved, and the last uploader is not the last linker
C3_Witness ==
    \E i, j \in Invocations :
        /\ TwoRunsDone(1, i, j)
        /\ ~Sequential(i, j)
        /\ lastUpload[1] = i /\ lastLink[1] = j

\* C4 as stated: once a blob has been uploaded for an order, in every state
\* the order's invoice_blob is the URL returned by the most recent upload.
C4_AsStated ==
    \A o \in OrderIds :
        lastUpload[o] # 0 => orders[o].invoice_blob = inv[lastUpload[o]].blob_url

\* C4 as amended: an upload replaces the blob under its key; from the first
\* link update on, invoice_blob is the URL returned by the most recent upload;
\* until a link update has run (between upload and link, or when the
\* invocation failed in between) invoice_blob keeps the value it had before.
C4_LinkedBlobIsLatestUpload ==
    \A o \in OrderIds :
        /\ lastUpload[o] # 0 => blobs[BlobName(o)] = inv[lastUpload[o]].pdf
        /\ lastLink[o] # 0 =>
             /\ lastUpload[o] # 0
             /\ orders[o].invoice_blob = inv[lastUpload[o]].blob_url
        /\ lastLink[o] = 0 => orders[o].invoice_blob = before.orders[o].invoice_blob

\* a second upload has replaced the first, and a link update has run
C4_Witness ==
    \E i, j \in Invocations :
        /\ i # j /\ inv[i].order_id = 1 /\ inv[j].order_id = 1
        /\ "upload" \in inv[i].did /\ "upload" \in inv[j].did
        /\ lastUpload[1] = j /\ lastLink[1] = i
        /\ orders[1].invoice_blob = inv[j].blob_url

\* C5: a body that does not decode or parse, or parses to a record without
\* order_id, makes the invocation raise at step 1; that invocation runs no
\* step and the receiving step changes no order row, invoice row or blob.
C5_MalformedRaisesAtReceive ==
    \A i \in Invocations :
        inv[i].pc # "idle" /\ Malformed(inv[i].body) =>
            /\ inv[i].pc = "raised" /\ inv[i].failed_at = "receive"
            /\ inv[i].did = {} /\ inv[i].order_id = NoOrderId

C5_ReceiveChangesNothing ==
    \A i \in Invocations :
        inv[i].pc = "idle" /\ inv'[i].pc # "idle" =>
            orders' = orders /\ invoice' = invoice /\ blobs' = blobs

C5_MalformedEventIsFatal ==
    /\ []C5_MalformedRaisesAtReceive
    /\ [][C5_ReceiveChangesNothing]_vars

C5_Witness ==
    \E i \in Invocations :
        /\ inv[i].pc = "raised"
        /\ inv[i].body = [kind |-> "object", fields |-> {}]
        /\ orders = before.orders /\ invoice = before.invoice /\ blobs = before.blobs

\* C11: once an invocation has run its status update, the order's status is
\* 'confirmed' whatever it was before; the handler writes no other status
\* value, so a confirmed order stays confirmed.
C11_MarkedIsConfirmed ==
    \A i \in Invocations :
        "mark" \in inv[i].did /\ inv[i].order_id \in OrderIds =>
            orders[inv[i].order_id].status = "confirmed"

C11_OnlyConfirmedIsWritten ==
    \A o \in OrderIds :
        /\ orders'[o].status \in {orders[o].status, "confirmed"}
        /\ orders[o].status = "confirmed" => orders'[o].status = "confirmed"

C11_StatusConfirmedAndStays ==
    /\ []C11_MarkedIsConfirmed
    /\ [][C11_OnlyConfirmedIsWritten]_vars

\* an order that was 'shipped', not 'placed', is confirmed all the same
C11_Witness ==
    /\ before.orders[1].status = "shipped"
    /\ orders[1].status = "confirmed"
    /\ \E i \in Invocations : inv[i].order_id = 1 /\ inv[i].pc = "raised" /\ inv[i].did = {"mark"}

\* C12: with the handler as the only writer, an order whose invoice_blob is
\* set has status 'confirmed', at least one invoice row and a blob stored
\* under invoice_order_{order_id}.pdf; an invocation that made the link update
\* had its status update, its insert and its upload before.
C12_LinkedOrderIsComplete ==
    /\ \A o \in OrderIds :
         orders[o].invoice_blob # None =>
            /\ orders[o].status = "confirmed"
            /\ invoice[o] >= 1
            /\ <<"invoice_order_", o, ".pdf">> \in DOMAIN blobs
    /\ \A i \in Invocations :
         "link" \in inv[i].did =>
            /\ {"mark", "insert", "upload"} \subseteq inv[i].did
            /\ <<"invoice_order_", inv[i].order_id, ".pdf">> \in DOMAIN blobs

\* an order that started without invoice_blob has been linked
C12_Witness ==
    /\ before.orders[1].invoice_blob = None
    /\ orders[1].invoice_blob # None
    /\ lastLink[1] # 0

\* C13: every invoice row refers to an order_id that has an order row and
\* every blob belongs to an existing order; an event whose order_id matches no
\* order row creates no invoice row and no blob.
C13_InvoiceRowsHaveOrders ==
    /\ \A o \in EventIds : invoice[o] > 0 => o \in DOMAIN orders
    /\ \A n \in DOMAIN blobs : n[2] \in DOMAIN orders

\* ================================================================== auth
\* ------------------------------------------------------------------ bounds
PwSlack    == 2     \* password lengths tried around the truncation limit: limit -/+ PwSlack
MaxLoginAt == 1     \* logins happen at clock 0..MaxLoginAt
MaxPast    == 2     \* the clock runs until MaxPast minutes after the last possible expiry
MaxTokens  == 2     \* number of tokens issued

\* ------------------------------------------------------------------ constants
ACCESS_TOKEN_EXPIRE_MINUTES == 60
PasswordSlice == 72     \* password[:72], plain_password[:72]
FallbackSlice == 50     \* password[:50]
BcryptMaxBytes == 72    \* bcrypt keys on the first 72 bytes of the secret
SECRET_KEY == "smartinventorysupersecretkey"
ALGORITHM == "HS256"

Min(a, b) == IF a <= b THEN a ELSE b

\* ------------------------------------------------------------------ strings
\* A str is a sequence of characters; "e'" stands for a character of two
\* UTF-8 bytes, the others take one byte.
WideChars == {"e'"}
RECURSIVE Utf8(_)
Utf8(str) ==
    IF str = <<>> THEN <<>>
    ELSE (IF Head(str) \in WideChars THEN <<<<Head(str), 1>>, <<Head(str), 2>>>>
                                     ELSE <<<<Head(str), 1>>>>) \o Utf8(Tail(str))

\* str[:n]
Slice(str, n) == SubSeq(str, 1, Min(n, Len(str)))

Rep(ch, n) == [k \in 1..n |-> ch]

\* lines 25-28
raw_users ==
    [admin     |-> [password |-> <<"a","d","m","i","n","1","2","3">>, role |-> "admin"],
     warehouse |-> [password |-> <<"w","a","r","e","h","o","u","s","e","1","2","3">>,
                    role |-> "warehouse"]]

\* ------------------------------------------------------------------ bcrypt (pwd_context)
\* The digest of a salted one-way hash is modelled by what decides equality:
\* the salt and the key material bcrypt uses, the first 72 bytes of the secret.
Salts == {"salt1", "salt2"}
BcryptHash(secret, salt) ==
    [scheme |-> "bcrypt", salt |-> salt,
     digest |-> SubSeq(Utf8(secret), 1, Min(BcryptMaxBytes, Len(Utf8(secret))))]
BcryptVerify(secret, hash) == BcryptHash(secret, hash.salt) = hash

\* Variant: the fallback length of line 38 used on the main path.
safe_hash_password_short(password, salt) == BcryptHash(Slice(password, FallbackSlice), salt)

\* lines 31-38; pwd_context.hash does not raise on a str, so the except branch
\* (the 50-character fallback) is not taken
safe_hash_password(password, salt) == BcryptHash(Slice(password, PasswordSlice), salt)

\* lines 52-58
verify_password(plain_password, hashed_password) ==
    BcryptVerify(Slice(plain_password, PasswordSlice), hashed_password)

\* dict.get
Get(d, key) == IF key \in DOMAIN d THEN <<d[key]>> ELSE None

\* Variant: the password check skipped for a known username.
authenticate_user_no_check(db, username, password) ==
    IF username \notin DOMAIN db THEN None ELSE db[username]

\* lines 61-70
authenticate_user(db, username, password) ==
    IF username \notin DOMAIN db THEN None
    ELSE IF ~verify_password(password, db[username].hashed_password) THEN None
    ELSE db[username]

\* ------------------------------------------------------------------ JWT (jose)
Sign(payload, key, alg) == <<alg, key, payload>>
JwtEncode(payload, key, alg) == [payload |-> payload, sig |-> Sign(payload, key, alg)]

\* Variant: the expiry claim not checked.
JwtDecodeNoExp(token, key, alg, now) ==
    IF token.sig # Sign(token.payload, key, alg) THEN [error |-> "JWTError"]
    ELSE [error |-> "", payload |-> token.payload]

\* jwt.decode: the signature, then exp against the current time (expired when
\* exp < now)
JwtDecode(token, key, alg, now) ==
    IF token.sig # Sign(token.payload, key, alg) THEN [error |-> "JWTError"]
    ELSE IF "exp" \in DOMAIN token.payload /\ token.payload.exp < now
         THEN [error |-> "ExpiredSignatureError"]
    ELSE [error |-> "", payload |-> token.payload]

\* lines 73-82
create_access_token(data, now) ==
    JwtEncode(data @@ [exp |-> now + ACCESS_TOKEN_EXPIRE_MINUTES], SECRET_KEY, ALGORITHM)

HTTPException(status_code, detail) == [raised |-> TRUE, status_code |-> status_code, detail |-> detail]
Returned(value) == [raised |-> FALSE, value |-> value]

\* lines 85-93
verify_token(token, now) ==
    LET d == JwtDecode(token, SECRET_KEY, ALGORITHM, now) IN
    IF d.error # "" THEN HTTPException(401, "Invalid or expired token")
    ELSE Returned(d.payload)

\* Variant: any token that carries a role passes.
role_checker_any(payload, allowed_roles) ==
    IF Get(payload, "role") = None
    THEN HTTPException(403, <<"Access denied. Requires one of", allowed_roles, "roles.">>)
    ELSE Returned(payload)

\* lines 97-104
role_checker(payload, allowed_roles) ==
    LET user_role == Get(payload, "role") IN
    IF user_role = None \/ user_role[1] \notin allowed_roles
    THEN HTTPException(403, <<"Access denied. Requires one of", allowed_roles, "roles.">>)
    ELSE Returned(payload)

\* lines 96-105 with the Depends(verify_token) of line 97
require_role(token, allowed_roles, now) ==
    LET v == verify_token(token, now) IN
    IF v.raised THEN v ELSE role_checker(v.value, allowed_roles)

\* auth_router.py lines 8-20
login(db, username, password, now) ==
    LET user == authenticate_user(db, username, password) IN
    IF user = None
    THEN HTTPException(401, "Invalid username or password")
    ELSE Returned([access_token |-> create_access_token(
                                        [sub |-> user.username, role |-> user.role], now),
                   token_type |-> "bearer"])

\* ------------------------------------------------------------------ inputs
Usernames == {"admin", "warehouse", "nobody"}
PwLens == {0, 80, 100} \cup ((PasswordSlice - PwSlack)..(PasswordSlice + PwSlack))
         \cup ((FallbackSlice - 1)..(FallbackSlice + 1))
Passwords ==
    {Rep("x", n) \o tail : n \in PwLens, tail \in {<<>>, <<"y">>, <<"e'">>}}
    \cup {Rep("e'", n) : n \in {35, 36, 37, 72, 80}}
    \cup {raw_users[u].password : u \in DOMAIN raw_users}
    \cup {raw_users.admin.password \o <<"x">>}
\* passwords typed at the login form
LoginPasswords ==
    {raw_users[u].password : u \in DOMAIN raw_users}
    \cup {<<>>, raw_users.admin.password \o <<"x">>, Slice(raw_users.admin.password, 5),
          Rep("x", 100)}
AllowedRoleSets == {{"admin"}, {"warehouse"}, {"admin", "warehouse"}}
RoleSets == {{"admin"}, {"admin", "warehouse"}}
\* claims handed to the role gate directly
SomeClaims ==
    {[sub |-> "admin", role |-> "admin", exp |-> 60],
     [sub |-> "warehouse", role |-> "warehouse", exp |-> 60],
     [sub |-> "x", role |-> "guest", exp |-> 60],
     [sub |-> "admin", exp |-> 60]}
IssuedTokens == {e.token : e \in issued}
\* what a client can send: the tokens it was given, copies with the payload
\* edited under the old signature, and tokens signed with another key
Presentable ==
    IssuedTokens
    \cup {[t EXCEPT !.payload.role = "admin"] : t \in IssuedTokens}
    \cup {[t EXCEPT !.payload.exp = @ + ACCESS_TOKEN_EXPIRE_MINUTES] : t \in IssuedTokens}
    \cup {JwtEncode([sub |-> "warehouse", role |-> "admin", exp |-> 1000], "guess", ALGORITHM)}
MaxClock == ACCESS_TOKEN_EXPIRE_MINUTES + MaxLoginAt + MaxPast

\* ------------------------------------------------------------------ auth: state machine
WfIdle ==
    /\ orders = <<>> /\ invoice = <<>> /\ blobs = <<>> /\ inv = <<>>
    /\ lastUpload = <<>> /\ lastLink = <<>> /\ during = <<>> /\ before = <<>>

\* lines 42-49: fake_users_db, each password hashed with a fresh salt
InitAuth ==
    /\ \E salt \in Salts :
         users_db = [username \in DOMAIN raw_users |->
                        [username        |-> username,
                         hashed_password |-> safe_hash_password(raw_users[username].password, salt),
                         role            |-> raw_users[username].role]]
    /\ hashed = <<>>
    /\ clock = 0
    /\ issued = {}
    /\ resp = [op |-> "none"]
    /\ WfIdle
    /\ InvIdle

Tick ==
    /\ clock < MaxClock
    /\ clock' = clock + 1
    /\ resp' = [op |-> "none"]
    /\ UNCHANGED <<users_db, hashed, issued, wfVars, invVars>>

\* POST /auth/login
Login ==
    /\ clock <= MaxLoginAt
    /\ \E username \in Usernames, password \in LoginPasswords :
         LET r == login(users_db, username, password, clock) IN
         /\ ~r.raised => Cardinality(issued) < MaxTokens
         /\ resp' = [op |-> "login", username |-> username, password |-> password,
                     user |-> authenticate_user(users_db, username, password), result |-> r]
         /\ issued' = IF r.raised THEN issued
                      ELSE issued \cup {[token |-> r.value.access_token,
                                         to |-> username, at |-> clock]}
    /\ UNCHANGED <<users_db, hashed, clock, wfVars, invVars>>

\* a protected route: Depends(verify_token)
VerifyToken ==
    /\ \E token \in Presentable :
         resp' = [op |-> "verify_token", token |-> token, at |-> clock,
                  result |-> verify_token(token, clock)]
    /\ UNCHANGED <<users_db, hashed, clock, issued, wfVars, invVars>>

\* a role-restricted route: Depends(require_role(...))
RequireRole ==
    /\ \E token \in Presentable, allowed_roles \in RoleSets :
         resp' = [op |-> "require_role", token |-> token, at |-> clock,
                  allowed_roles |-> allowed_roles,
                  result |-> require_role(token, allowed_roles, clock)]
    /\ UNCHANGED <<users_db, hashed, clock, issued, wfVars, invVars>>

\* role_checker applied to given claims
RoleChecker ==
    /\ \E payload \in SomeClaims, allowed_roles \in AllowedRoleSets :
         resp' = [op |-> "role_checker", payload |-> payload, allowed_roles |-> allowed_roles,
                  result |-> role_checker(payload, allowed_roles)]
    /\ UNCHANGED <<users_db, hashed, clock, issued, wfVars, invVars>>

\* one password is hashed, then one candidate is verified against the hash
HashPassword ==
    /\ hashed = <<>>
    /\ \E password \in Passwords, salt \in Salts :
         hashed' = <<[password |-> password, hash |-> safe_hash_password(password, salt)]>>
    /\ resp' = [op |-> "none"]
    /\ UNCHANGED <<users_db, clock, issued, wfVars, invVars>>

VerifyPassword ==
    /\ hashed # <<>>
    /\ resp.op = "none"
    /\ \E plain_password \in Passwords :
         resp' = [op |-> "verify_password", plain_password |-> plain_password,
                  hashed_from |-> hashed[1].password,
                  result |-> verify_password(plain_password, hashed[1].hash)]
    /\ UNCHANGED <<users_db, hashed, clock, issued, wfVars, invVars>>

NextAuth ==
    \/ Tick
    \/ Login
    \/ VerifyToken
    \/ RequireRole
    \/ RoleChecker

SpecAuth == InitAuth /\ [][NextAuth]_vars

\* password hashing on its own: any password hashed, any password verified
\* against the hash
NextPassword ==
    \/ HashPassword
    \/ VerifyPassword

SpecPassword == InitAuth /\ [][NextPassword]_vars

\* ------------------------------------------------------------------ auth: claims
LoginFailure == [raised |-> TRUE, status_code |-> 401, detail |-> "Invalid username or password"]

\* C6: authenticate_user returns the stored credential (with the user's role)
\* exactly when the username is in the store and the password is that user's
\* password; for every other pair it returns None, and login answers an
\* unknown username and a wrong password with the same 401.
C6_AuthenticateExactlyOnMatch ==
    resp.op = "login" =>
        LET u == resp.username
            match == u \in DOMAIN raw_users /\ resp.password = raw_users[u].password
        IN  IF match
            THEN /\ resp.user = users_db[u]
                 /\ resp.user.role = raw_users[u].role
                 /\ ~resp.result.raised
                 /\ resp.result.value.access_token.payload.sub = u
                 /\ resp.result.value.access_token.payload.role = raw_users[u].role
            ELSE /\ resp.user = None
                 /\ resp.result = LoginFailure

\* a known username with another user's password is turned away
C6_Witness ==
    /\ resp.op = "login"
    /\ resp.username = "warehouse" /\ resp.password = raw_users.admin.password
    /\ resp.result = LoginFailure

IssuedAs(token) == {e \in issued : e.token = token}

\* C7: a token issued at t0 carries expiry t0 + 60; verify_token returns its
\* claims (subject and role as issued) before the expiry, fails with 401
\* 'Invalid or expired token' after it, and a token that fails never
\* validates again.
C7_VerifyByExpiry ==
    /\ \A e \in issued : e.token.payload.exp = e.at + 60
    /\ resp.op = "verify_token" =>
         \A e \in IssuedAs(resp.token) :
            /\ resp.at < e.at + 60 =>
                 /\ resp.result = [raised |-> FALSE, value |-> e.token.payload]
                 /\ resp.result.value.sub = e.to
                 /\ resp.result.value.role = raw_users[e.to].role
            /\ resp.at > e.at + 60 =>
                 resp.result = [raised |-> TRUE, status_code |-> 401,
                                detail |-> "Invalid or expired token"]

C7_NoRefresh ==
    /\ issued \subseteq issued'
    /\ \A e \in issued :
         verify_token(e.token, clock).raised => verify_token(e.token, clock').raised

C7_TokenLifetime ==
    /\ []C7_VerifyByExpiry
    /\ [][C7_NoRefresh]_vars

C7_Witness ==
    /\ resp.op = "verify_token"
    /\ \E e \in IssuedAs(resp.token) : resp.at = e.at + 61
    /\ resp.result.raised

\* C8: role_checker returns the claims unchanged exactly when their role is in
\* allowed_roles and raises 403 otherwise (claims without a role included);
\* a request passes a role-restricted route only with a token that login
\* issued to a user whose stored role is allowed, so a 'warehouse' user never
\* passes an admin-only gate.
C8_RoleGate ==
    /\ resp.op = "role_checker" =>
         IF "role" \in DOMAIN resp.payload /\ resp.payload.role \in resp.allowed_roles
         THEN resp.result = [raised |-> FALSE, value |-> resp.payload]
         ELSE resp.result.raised /\ resp.result.status_code = 403
    /\ (resp.op = "require_role" /\ ~resp.result.raised) =>
         /\ IssuedAs(resp.token) # {}
         /\ \A e \in IssuedAs(resp.token) : raw_users[e.to].role \in resp.allowed_roles
         /\ resp.result.value = resp.token.payload

\* the token login gave the warehouse user is refused by an admin-only gate
C8_Witness ==
    /\ resp.op = "require_role"
    /\ \E e \in IssuedAs(resp.token) : e.to = "warehouse"
    /\ resp.allowed_roles = {"admin"}
    /\ resp.result.raised /\ resp.result.status_code = 403

\* the first 72 bytes of the UTF-8 encoding
Bytes72(str) == SubSeq(Utf8(str), 1, Min(72, Len(Utf8(str))))

MaxItems == 2       \* order_items rows of the order
MaxQty   == 2       \* quantity of a row: 1..MaxQty

\* unit prices: 10.00, 5.00, 1.25, and two with more than two decimals
UnitPrices == {Milli(10, 0), Milli(5, 0), Milli(1, 250), Milli(0, 4), Milli(2, 996)}
ItemRows == [product_id : {7}, quantity : 1..MaxQty, price : UnitPrices]
ItemLists == UNION {[1..n -> ItemRows] : n \in 0..MaxItems}

\* the rows fetched on lines 108-111
InitInvoice ==
    /\ r_in \in ItemLists
    /\ r_pc = "total"
    /\ r_out = [total_amount |-> 0, line_totals |-> <<>>, rows |-> <<>>, grand_total |-> <<>>]
    /\ WfIdle
    /\ AuthIdle

\* line 113
ComputeTotal ==
    /\ r_pc = "total"
    /\ r_out' = [r_out EXCEPT !.total_amount = TotalAmount(r_in)]
    /\ r_pc' = "rows"
    /\ UNCHANGED <<r_in, wfVars, authVars>>

\* lines 157-165: one pass of the loop over items
RenderNextRow ==
    /\ r_pc = "rows"
    /\ Len(r_out.rows) < Len(r_in)
    /\ LET item == r_in[Len(r_out.rows) + 1] IN
       r_out' = [r_out EXCEPT !.line_totals = Append(@, LineTotal(item)),
                              !.rows = Append(@, RenderRow(item))]
    /\ UNCHANGED <<r_in, r_pc, wfVars, authVars>>

\* lines 167-169: after the loop
RenderGrandTotal ==
    /\ r_pc = "rows"
    /\ Len(r_out.rows) = Len(r_in)
    /\ r_out' = [r_out EXCEPT !.grand_total = GrandTotalCell(r_out.total_amount)]
    /\ r_pc' = "done"
    /\ UNCHANGED <<r_in, wfVars, authVars>>

NextInvoice ==
    \/ ComputeTotal
    \/ RenderNextRow
    \/ RenderGrandTotal

SpecInvoice == InitInvoice /\ [][NextInvoice]_vars

\* ------------------------------------------------------------------ invoice arithmetic: claims
RECURSIVE SumOver(_, _)
SumOver(f, n) == IF n = 0 THEN 0 ELSE f[n] + SumOver(f, n - 1)

Abs(x) == IF x < 0 THEN -x ELSE x
\* the cell shows x to two decimals: a whole number of hundredths, the nearest one
ShowsTwoDecimals(cell, x) ==
    /\ cell.frac[1] \in 0..9 /\ cell.frac[2] \in 0..9 /\ cell.point = "."
    /\ Abs(CellAmount(cell) - x) <= 5
PrintedLineSum == SumOver([k \in 1..Len(r_out.rows) |-> CellAmount(r_out.rows[k].total)],
                          Len(r_out.rows))
ExampleItems ==
    << [product_id |-> 7, quantity |-> 2, price |-> 10000],
       [product_id |-> 7, quantity |-> 1, price |-> 5000] >>
Inr2500 == [prefix |-> "INR ", amount |-> [whole |-> 25, point |-> ".", frac |-> <<0, 0>>]]

\* C10 as stated: the total is the sum of quantity x price, the grand-total
\* cell shows it to two decimals after 'INR ', and it equals the sum of the
\* per-line totals printed in the table.
C10_AsStated ==
    r_pc = "done" =>
        /\ r_out.total_amount = SumOver([k \in 1..Len(r_in) |-> r_in[k].quantity * r_in[k].price],
                                        Len(r_in))
        /\ r_out.grand_total.prefix = "INR "
        /\ ShowsTwoDecimals(r_out.grand_total.amount, r_out.total_amount)
        /\ CellAmount(r_out.grand_total.amount) = PrintedLineSum

\* C10 as amended: the total is the sum of quantity x price; the grand-total
\* cell shows it to two decimals after 'INR '; it equals the sum of the
\* per-line totals as computed, each printed to two decimals; the printed
\* per-line totals add up to the printed grand total when every price has at
\* most two decimals.  [(2, 10.00), (1, 5.00)] gives 25.00 and 'INR 25.00';
\* no items gives 0.
C10_TotalAndCells ==
    r_pc = "done" =>
        /\ r_out.total_amount = SumOver([k \in 1..Len(r_in) |-> r_in[k].quantity * r_in[k].price],
                                        Len(r_in))
        /\ r_out.grand_total.prefix = "INR "
        /\ ShowsTwoDecimals(r_out.grand_total.amount, r_out.total_amount)
        /\ Len(r_out.rows) = Len(r_in)
        /\ r_out.total_amount = SumOver(r_out.line_totals, Len(r_out.line_totals))
        /\ \A k \in 1..Len(r_out.rows) :
             ShowsTwoDecimals(r_out.rows[k].total, r_out.line_totals[k])
        /\ (\A k \in 1..Len(r_in) : r_in[k].price % 10 = 0) =>
             /\ CellAmount(r_out.grand_total.amount) = PrintedLineSum
             /\ CellAmount(r_out.grand_total.amount) = r_out.total_amount
        /\ r_in = ExampleItems => r_out.total_amount = 25000 /\ r_out.grand_total = Inr2500
        /\ r_in = <<>> => r_out.total_amount = 0

C10_Witness ==
    /\ r_pc = "done"
    /\ r_in = ExampleItems
    /\ r_out.grand_total = Inr2500
    /\ PrintedLineSum = 25000

====
